---- MODULE Spec2Model ----
(***************************************************************************)
(* PermaStore: a content-addressed file store whose node keeps a ledger    *)
(* (blockchain.py), a peer registry and a replicator (network.py) and a    *)
(* content directory written by the store handler (p2p_node.py).           *)
(***************************************************************************)
EXTENDS Integers, Sequences, FiniteSets, TLC

(* ------------------------------ bounds --------------------------------- *)
\* longest in-memory chain the model grows (genesis included)
MaxChain == 3
\* largest value the wall clock reaches
MaxClock == 1

(* --------------------------- program constants ------------------------- *)
\* Network.__init__(retry_limit=3)
retry_limit == 3

VARIABLES
    chain,                  \* Blockchain.chain
    current_transactions,   \* Blockchain.current_transactions
    storage_file,           \* the file named Blockchain.storage_file
    now,                    \* the wall clock read by time.time()
    uploads,                \* the content directory: file name -> bytes
    peers,                  \* Network.peers
    peer_file,              \* the file named Network.peer_file
    pc,                     \* where the running handler stands
    st,                     \* locals of store_file
    bc,                     \* locals of broadcast_file
    sy,                     \* locals of sync_files
    th,                     \* locals of the add_transaction calls of two threads
    net,                    \* several nodes: their peer sets, handlers and queued uploads
    last                    \* the step that ran last, its argument and its result

ledgerVars == <<chain, current_transactions, storage_file, now>>
peerVars == <<peers, peer_file>>
vars == <<chain, current_transactions, storage_file, now, uploads, peers,
          peer_file, pc, st, bc, sy, th, net, last>>

(* ------------------------------ blockchain.py -------------------------- *)
\* the values time.time() can return when the clock stood at t at the previous read
ClockReads(t) == {u \in t..(t + 1) : u <= MaxClock}

\* json.dumps(block, sort_keys=True): the fields in key order
Dumps(block) ==
    << <<"index", block.index>>,
       <<"previous_hash", block.previous_hash>>,
       <<"timestamp", block.timestamp>>,
       <<"transactions", block.transactions>> >>

\* hashlib.sha256(data).hexdigest(): a digest without collisions
sha256_hexdigest(data) == [sha256 |-> data]

\* Blockchain.hash: the digest of the canonical serialisation
hash(block) == sha256_hexdigest(Dumps(block))

\* get_last_block reading the first block instead of the last
get_last_block_first(ch) == IF Len(ch) > 0 THEN <<ch[1]>> ELSE <<>>

\* Blockchain.get_last_block
get_last_block(ch) == IF Len(ch) > 0 THEN <<ch[Len(ch)]>> ELSE <<>>

\* what open(storage_file,'w') + json.dump leave on disk
SaveOutcomes == {"ok", "open_failed", "write_failed"}

\* _save_chain writing the chain as it was before the last append
save_chain_before_append(ch, file, outcome) ==
    CASE outcome = "ok"           -> [state |-> "ok", data |-> SubSeq(ch, 1, Len(ch) - 1)]
      [] outcome = "open_failed"  -> file
      [] outcome = "write_failed" -> [state |-> "corrupt", data |-> <<>>]

\* Blockchain._save_chain: the exception is logged and swallowed
save_chain(ch, file, outcome) ==
    CASE outcome = "ok"           -> [state |-> "ok", data |-> ch]
      [] outcome = "open_failed"  -> file
      [] outcome = "write_failed" -> [state |-> "corrupt", data |-> <<>>]

\* Blockchain._load_chain
load_chain(file) == IF file.state = "ok" THEN file.data ELSE <<>>

\* create_block without the line that clears the pending transactions
create_block_keeps_pending(ch, cur, previous_hash, t) ==
    LET block == [index |-> Len(ch) + 1,
                  timestamp |-> t,
                  transactions |-> cur,
                  previous_hash |-> previous_hash]
    IN  [chain |-> Append(ch, block),
         current_transactions |-> cur,
         block |-> block]

\* create_block numbering the new block by the length of the chain before it
create_block_index_from_zero(ch, cur, previous_hash, t) ==
    LET block == [index |-> Len(ch),
                  timestamp |-> t,
                  transactions |-> cur,
                  previous_hash |-> previous_hash]
    IN  [chain |-> Append(ch, block),
         current_transactions |-> <<>>,
         block |-> block]

\* Blockchain.create_block, without its trailing _save_chain
create_block(ch, cur, previous_hash, t) ==
    LET block == [index |-> Len(ch) + 1,
                  timestamp |-> t,
                  transactions |-> cur,
                  previous_hash |-> previous_hash]
    IN  [chain |-> Append(ch, block),
         current_transactions |-> <<>>,
         block |-> block]

\* add_transaction linking the new block to the first block instead of the last
add_transaction_links_to_first(ch, cur, transaction, t1, t2) ==
    LET pending == Append(cur, [data |-> transaction, timestamp |-> t1])
        sealed  == IF Len(pending) >= 1
                   THEN create_block(ch, pending, hash(ch[1]), t2)
                   ELSE [chain |-> ch, current_transactions |-> pending]
        tip     == get_last_block(sealed.chain)
    IN  [chain |-> sealed.chain,
         current_transactions |-> sealed.current_transactions,
         ret |-> IF Len(sealed.chain) > 0 THEN <<tip[1].index>> ELSE <<>>]

\* Blockchain.add_transaction, without the save inside create_block
add_transaction(ch, cur, transaction, t1, t2) ==
    LET pending == Append(cur, [data |-> transaction, timestamp |-> t1])
        sealed  == IF Len(pending) >= 1
                   THEN create_block(ch, pending, hash(ch[Len(ch)]), t2)
                   ELSE [chain |-> ch, current_transactions |-> pending]
        tip     == get_last_block(sealed.chain)
    IN  [chain |-> sealed.chain,
         current_transactions |-> sealed.current_transactions,
         ret |-> IF Len(sealed.chain) > 0 THEN <<tip[1].index>> ELSE <<>>]

\* Blockchain.__init__: load, then make and save the genesis block when the chain is empty
init_ledger(file0, t, outcome1, outcome2) ==
    LET loaded  == load_chain(file0)
        genesis == create_block(loaded, <<>>, "1", t)
        file1   == save_chain(genesis.chain, file0, outcome1)
    IN  IF Len(loaded) = 0
        THEN [chain |-> genesis.chain,
              current_transactions |-> genesis.current_transactions,
              storage_file |-> save_chain(genesis.chain, file1, outcome2)]
        ELSE [chain |-> loaded,
              current_transactions |-> <<>>,
              storage_file |-> file0]

(* ------------------------------ p2p_node.py ---------------------------- *)
\* P2PNode.__init__(max_file_size=...): the size cap, counted in chunks here
max_file_size == 2

\* file bodies a client can upload (the longest one is over the cap)
Contents == {<<1>>, <<1, 2>>, <<1, 2, 3>>}

\* file bodies a peer can serve on /retrieve
RemoteBlobs == {<<1>>, <<1, 2>>}

\* the names files can have in the content directory
Hashes == {sha256_hexdigest(c) : c \in RemoteBlobs}

\* UploadFile objects a client can send
UploadFiles == {[filename |-> "f", content_type |-> "text/plain", content |-> c] : c \in Contents}

\* os.path.exists(os.path.join(upload_dir, name))
exists(up, name) == up[name] # <<>>

\* the transaction store_file hands to the ledger
store_payload(file) ==
    [hash |-> sha256_hexdigest(file.content),
     filename |-> file.filename,
     content_type |-> file.content_type,
     size |-> Len(file.content)]

\* payloads a caller can hand to add_transaction
Payloads == {store_payload(f) : f \in UploadFiles}

\* P2PNode.retrieve_file
retrieve_file(up, file_hash) == IF exists(up, file_hash) THEN up[file_hash] ELSE <<>>

(* ------------------------------ network.py ----------------------------- *)
\* str.startswith(prefix)
startswith(s, prefix) == Len(s) >= Len(prefix) /\ SubSeq(s, 1, Len(prefix)) = prefix

\* urls a caller can hand to add_peer and remove_peer
Urls == {"a:1", "http://a:1", "https://b:2"}

\* registered peers a node can start with
PeerUrls == {"http://a:1", "https://b:2"}

\* what a peer can answer to GET /status with timeout 5 in _validate_peer
Probes == {[exc |-> FALSE, status_code |-> 200],
           [exc |-> FALSE, status_code |-> 503],
           [exc |-> TRUE, status_code |-> 0]}

\* Network._validate_peer
validate_peer(probe) == IF probe.exc THEN FALSE ELSE probe.status_code = 200

\* Network._save_peers: written is what reached the disk when the write broke off
save_peers(ps, file, outcome, written) ==
    CASE outcome = "ok"           -> [exists |-> TRUE, lines |-> ps]
      [] outcome = "open_failed"  -> file
      [] outcome = "write_failed" -> [exists |-> TRUE, lines |-> written]

\* the url add_peer works with
normalize(peer_url) ==
    IF ~(startswith(peer_url, "http://") \/ startswith(peer_url, "https://"))
    THEN "http://" \o peer_url
    ELSE peer_url

\* add_peer admitting the peer whatever the probe says
add_peer_unvalidated(ps, file, peer_url, probe, outcome, written) ==
    LET url == normalize(peer_url)
    IN  [peers |-> ps \cup {url},
         peer_file |-> save_peers(ps \cup {url}, file, outcome, written),
         saved |-> TRUE,
         ret |-> validate_peer(probe)]

\* Network.add_peer
add_peer(ps, file, peer_url, probe, outcome, written) ==
    LET url == normalize(peer_url)
    IN  IF validate_peer(probe)
        THEN [peers |-> ps \cup {url},
              peer_file |-> save_peers(ps \cup {url}, file, outcome, written),
              saved |-> TRUE,
              ret |-> TRUE]
        ELSE [peers |-> ps, peer_file |-> file, saved |-> FALSE, ret |-> FALSE]

\* Network.remove_peer
remove_peer(ps, file, peer_url, outcome, written) ==
    IF peer_url \in ps
    THEN [peers |-> ps \ {peer_url},
          peer_file |-> save_peers(ps \ {peer_url}, file, outcome, written),
          saved |-> TRUE]
    ELSE [peers |-> ps, peer_file |-> file, saved |-> FALSE]

\* what a peer can answer to POST /upload
UploadResponses == {[exc |-> FALSE, status_code |-> 200],
                    [exc |-> FALSE, status_code |-> 500],
                    [exc |-> TRUE, status_code |-> 0]}

\* broadcast_file before its loop over the peers
BcIdle ==
    [todo |-> {}, called |-> {}, cur |-> <<>>, who |-> <<>>, attempt |-> 0,
     trace |-> <<>>, got200 |-> {}, success |-> <<>>, failed |-> <<>>]

\* Network.broadcast_file, the local state when the loop over self.peers starts
broadcast_start(ps) == [BcIdle EXCEPT !.todo = ps, !.called = ps]

\* broadcast_attempt without the break after a 200
broadcast_attempt_no_break(b, peer, resp) ==
    LET s == IF b.cur = <<>>
             THEN [b EXCEPT !.todo = @ \ {peer}, !.cur = <<peer>>, !.who = <<peer>>,
                            !.attempt = 0, !.trace = <<>>]
             ELSE b
        t == [s EXCEPT !.trace = IF resp.exc THEN @ \o <<"exc", "sleep">>
                                 ELSE IF resp.status_code = 200 THEN Append(@, "ok")
                                 ELSE Append(@, "status"),
                       !.success = IF ~resp.exc /\ resp.status_code = 200
                                   THEN Append(@, peer) ELSE @,
                       !.attempt = @ + 1]
    IN  IF t.attempt >= retry_limit
        THEN [t EXCEPT !.failed = IF "ok" \in {t.trace[k] : k \in 1..Len(t.trace)}
                                  THEN @ ELSE Append(@, peer),
                       !.cur = <<>>]
        ELSE t

\* broadcast_attempt without the test of success before the append to failed
broadcast_attempt_unguarded_failed(b, peer, resp) ==
    LET s == IF b.cur = <<>>
             THEN [b EXCEPT !.todo = @ \ {peer}, !.cur = <<peer>>, !.who = <<peer>>,
                            !.attempt = 0, !.trace = <<>>]
             ELSE b
    IN  IF ~resp.exc /\ resp.status_code = 200
        THEN [s EXCEPT !.success = Append(@, peer),
                       !.failed = Append(@, peer),
                       !.trace = Append(@, "ok"),
                       !.cur = <<>>]
        ELSE LET t == [s EXCEPT !.trace = IF resp.exc THEN @ \o <<"exc", "sleep">>
                                                       ELSE Append(@, "status"),
                                !.attempt = @ + 1]
             IN  IF t.attempt >= retry_limit
                 THEN [t EXCEPT !.failed = Append(@, peer), !.cur = <<>>]
                 ELSE t

\* Network.broadcast_file, one pass of the loop over range(retry_limit) for peer:
\* trace is the sequence of events for the peer named by who
broadcast_attempt(b, peer, resp) ==
    LET s == IF b.cur = <<>>
             THEN [b EXCEPT !.todo = @ \ {peer}, !.cur = <<peer>>, !.who = <<peer>>,
                            !.attempt = 0, !.trace = <<>>]
             ELSE b
    IN  IF ~resp.exc /\ resp.status_code = 200
        THEN [s EXCEPT !.success = Append(@, peer),
                       !.trace = Append(@, "ok"),
                       !.cur = <<>>]
        ELSE LET t == [s EXCEPT !.trace = IF resp.exc THEN @ \o <<"exc", "sleep">>
                                                       ELSE Append(@, "status"),
                                !.attempt = @ + 1]
             IN  IF t.attempt >= retry_limit
                 THEN [t EXCEPT !.failed = Append(@, peer), !.cur = <<>>]
                 ELSE t

\* the number of upload attempts in a trace
Attempts(trace) == Cardinality({k \in 1..Len(trace) : trace[k] # "sleep"})

(* ----------------------------- pulling files --------------------------- *)
\* most transactions in a block of a peer's ledger
MaxTx == 1
\* most blocks in a peer's ledger
MaxRemote == 2

\* all sequences over S of length at most n
SeqsUpTo(S, n) == UNION {[1..k -> S] : k \in 0..n}

\* transactions of a peer's block: data.hash is a hash, or missing
RemoteTxs == {[hash |-> <<>>]} \cup {[hash |-> <<h>>] : h \in Hashes}

\* the ledgers a peer can hold
RemoteLedgers == SeqsUpTo([transactions : SeqsUpTo(RemoteTxs, MaxTx)], MaxRemote)

\* the hashes named by a list of transactions
TxHashes(txs) == {txs[k].hash[1] : k \in {j \in 1..Len(txs) : txs[j].hash # <<>>}}

\* the hashes named in blocks of a ledger other than its last
NonTipHashes(ledger) ==
    UNION {TxHashes(ledger[k].transactions) : k \in 1..(Len(ledger) - 1)}

\* the hashes a ledger names in earlier blocks and not in its last block
OnlyOlderHashes(ledger) ==
    IF Len(ledger) = 0 THEN {}
    ELSE NonTipHashes(ledger) \ TxHashes(ledger[Len(ledger)].transactions)

\* what a peer can answer to GET /status: body is its ledger, served by get_status
StatusResponses ==
    {[exc |-> TRUE, status_code |-> 0, json_ok |-> FALSE, ledger |-> <<>>],
     [exc |-> FALSE, status_code |-> 503, json_ok |-> FALSE, ledger |-> <<>>],
     [exc |-> FALSE, status_code |-> 200, json_ok |-> FALSE, ledger |-> <<>>]}
    \cup {[exc |-> FALSE, status_code |-> 200, json_ok |-> TRUE, ledger |-> l] :
              l \in RemoteLedgers}

\* a 200 answer whose body response.json() cannot parse
BadJson(resp) == ~resp.exc /\ resp.status_code = 200 /\ ~resp.json_ok

\* what a peer can answer to GET /retrieve/<hash>: delivered chunks of body arrive,
\* and when that is not all of them the stream breaks with a RequestException
RetrieveResponses ==
    {[exc |-> TRUE, status_code |-> 0, body |-> <<>>, delivered |-> 0],
     [exc |-> FALSE, status_code |-> 404, body |-> <<>>, delivered |-> 0]}
    \cup UNION {{[exc |-> FALSE, status_code |-> 200, body |-> b, delivered |-> k] :
                     k \in 0..Len(b)} : b \in RemoteBlobs}

\* _download_file without the os.remove after a digest mismatch
download_file_keeps_mismatch(up, file_hash, resp) ==
    IF exists(up, file_hash)
    THEN [uploads |-> up, ret |-> TRUE, requested |-> FALSE]
    ELSE IF ~resp.exc /\ resp.status_code = 200
    THEN LET content == SubSeq(resp.body, 1, resp.delivered)
         IN  [uploads |-> [up EXCEPT ![file_hash] = <<content>>],
              ret |-> resp.delivered = Len(resp.body) /\ sha256_hexdigest(content) = file_hash,
              requested |-> TRUE]
    ELSE [uploads |-> up, ret |-> FALSE, requested |-> TRUE]

\* _download_file without the test for a file that is already there
download_file_no_skip(up, file_hash, resp) ==
    IF ~resp.exc /\ resp.status_code = 200
    THEN LET content == SubSeq(resp.body, 1, resp.delivered)
         IN  IF resp.delivered < Len(resp.body)
             THEN [uploads |-> [up EXCEPT ![file_hash] = <<content>>],
                   ret |-> FALSE, requested |-> TRUE]
             ELSE IF sha256_hexdigest(content) # file_hash
             THEN [uploads |-> [up EXCEPT ![file_hash] = <<>>],
                   ret |-> FALSE, requested |-> TRUE]
             ELSE [uploads |-> [up EXCEPT ![file_hash] = <<content>>],
                   ret |-> TRUE, requested |-> TRUE]
    ELSE [uploads |-> up, ret |-> FALSE, requested |-> TRUE]

\* Network._download_file
download_file(up, file_hash, resp) ==
    IF exists(up, file_hash)
    THEN [uploads |-> up, ret |-> TRUE, requested |-> FALSE]
    ELSE IF ~resp.exc /\ resp.status_code = 200
    THEN LET content == SubSeq(resp.body, 1, resp.delivered)
         IN  IF resp.delivered < Len(resp.body)
             THEN [uploads |-> [up EXCEPT ![file_hash] = <<content>>],
                   ret |-> FALSE, requested |-> TRUE]
             ELSE IF sha256_hexdigest(content) # file_hash
             THEN [uploads |-> [up EXCEPT ![file_hash] = <<>>],
                   ret |-> FALSE, requested |-> TRUE]
             ELSE [uploads |-> [up EXCEPT ![file_hash] = <<content>>],
                   ret |-> TRUE, requested |-> TRUE]
    ELSE [uploads |-> up, ret |-> FALSE, requested |-> TRUE]

\* sync_files before its loop over the peers
SyIdle ==
    [todo |-> {}, called |-> {}, attempted |-> {}, cur |-> <<>>, tip |-> <<>>, i |-> 1,
     only_older |-> {}, absent_before |-> {}, reqs |-> <<>>, counted |-> <<>>,
     pull_failed |-> 0,
     peer_result |-> [status |-> "failed", files |-> 0],
     results |-> [synced |-> 0, failed |-> 0, peers |-> <<>>]]

\* Network.sync_files, the local state when the loop over self.peers starts
sync_start(ps) == [SyIdle EXCEPT !.todo = ps, !.called = ps]

\* Network.sync_files, the status request to peer and what follows up to the loop
\* over the transactions; raised tells that an exception left sync_files.
\* old_requests: a requests release whose json() raises a plain ValueError
sync_status(s, up, peer, resp, old_requests) ==
    LET s0 == [s EXCEPT !.todo = @ \ {peer},
                        !.attempted = @ \cup {peer},
                        !.peer_result = [status |-> "failed", files |-> 0],
                        !.tip = <<>>, !.i = 1, !.only_older = {}, !.reqs = <<>>,
                        !.counted = <<>>,
                        !.absent_before = {h \in Hashes : ~exists(up, h)}]
        failed == [s0 EXCEPT !.results.failed = @ + 1,
                             !.results.peers = @ @@ (peer :> s0.peer_result),
                             !.absent_before = {}]
        last_block == get_last_block(resp.ledger)
    IN  IF resp.exc THEN [sy |-> failed, raised |-> FALSE]
        ELSE IF resp.status_code # 200 THEN [sy |-> failed, raised |-> FALSE]
        ELSE IF ~resp.json_ok
        THEN IF old_requests THEN [sy |-> s0, raised |-> TRUE]
                             ELSE [sy |-> failed, raised |-> FALSE]
        ELSE IF last_block = <<>> THEN [sy |-> s0, raised |-> TRUE]
        ELSE [sy |-> [s0 EXCEPT !.cur = <<peer>>,
                                !.tip = last_block[1].transactions,
                                !.only_older = OnlyOlderHashes(resp.ledger)],
              raised |-> FALSE]

\* Network.sync_files, one pass of the loop over the transactions of the tip;
\* pull_failed counts the retrievals of this peer that were sent and failed
sync_pull(s, up, resp) ==
    LET tx == s.tip[s.i]
        d  == download_file(up, tx.hash[1], resp)
    IN  IF tx.hash = <<>>
        THEN [sy |-> [s EXCEPT !.i = @ + 1], uploads |-> up]
        ELSE [sy |-> [s EXCEPT !.i = @ + 1,
                               !.reqs = IF d.requested THEN Append(@, tx.hash[1]) ELSE @,
                               !.counted = IF d.ret THEN Append(@, tx.hash[1]) ELSE @,
                               !.pull_failed = IF d.requested /\ ~d.ret THEN @ + 1 ELSE @,
                               !.peer_result.files = IF d.ret THEN @ + 1 ELSE @],
              uploads |-> d.uploads]

\* Network.sync_files, after the loop over the transactions; what the pass for
\* this peer leaves in the locals is not read again
sync_peer_done(s) ==
    LET r == [s.peer_result EXCEPT !.status = "success"]
    IN  [s EXCEPT !.results.synced = @ + r.files,
                  !.results.peers = @ @@ (s.cur[1] :> r),
                  !.cur = <<>>,
                  !.peer_result = SyIdle.peer_result,
                  !.tip = <<>>, !.i = 1, !.only_older = {}, !.absent_before = {},
                  !.reqs = <<>>, !.counted = <<>>, !.pull_failed = 0]

(* ------------------------------- initial states ------------------------ *)
StIdle == [file_hash |-> <<>>]

\* the threads that can be inside add_transaction at the same time
Threads == {1, 2}

\* a thread that has not called add_transaction yet
ThIdle ==
    [t \in Threads |-> [pc |-> "ready", previous_hash |-> <<>>, block |-> <<>>,
                        aliased |-> FALSE, ret |-> <<>>, overlapped |-> FALSE]]

\* the nodes of the network, named by their urls
Nodes == PeerUrls

\* the upload requests a node holds unread at most; a further connection is refused
MaxInbox == 2

\* a node with no request: inbox holds the upload requests received and not yet
\* read, each with its sender and whether the sender still waits for the answer;
\* req is the request the handler works on, bc the locals of its
\* broadcast_file, target the peer whose answer requests.post waits for
NodeIdle ==
    [mode |-> "idle", inbox |-> <<>>, req |-> <<>>, bc |-> BcIdle, target |-> <<>>,
     stored |-> FALSE]

\* no network
NetIdle == [peers |-> [n \in Nodes |-> {}], nodes |-> [n \in Nodes |-> NodeIdle]]

\* a ledger constructed over a missing or unparseable storage file
LedgerInit ==
    \E file0 \in {[state |-> "missing", data |-> <<>>], [state |-> "corrupt", data |-> <<>>]},
       t \in ClockReads(0), o1 \in SaveOutcomes, o2 \in SaveOutcomes :
        LET l == init_ledger(file0, t, o1, o2)
        IN  /\ chain = l.chain
            /\ current_transactions = l.current_transactions
            /\ storage_file = l.storage_file
            /\ now = t

\* a ledger constructed over a missing storage file, every write succeeding
LedgerInitPlain ==
    LET l == init_ledger([state |-> "missing", data |-> <<>>], 0, "ok", "ok")
    IN  /\ chain = l.chain
        /\ current_transactions = l.current_transactions
        /\ storage_file = l.storage_file
        /\ now = 0

\* a node with no handler running
HandlersIdle ==
    /\ pc = "idle"
    /\ st = StIdle
    /\ bc = BcIdle
    /\ sy = SyIdle
    /\ th = ThIdle
    /\ net = NetIdle
    /\ last = [op |-> "init"]

\* Network.__init__ over a missing peer file
PeersInit ==
    /\ peers = {}
    /\ peer_file = [exists |-> FALSE, lines |-> {}]

\* Network.__init__ over a peer file written by _save_peers
PeersLoaded ==
    /\ peers \in SUBSET PeerUrls
    /\ peer_file = [exists |-> TRUE, lines |-> peers]

\* P2PNode.__init__ made the content directory
UploadsEmpty == uploads = [h \in Hashes |-> <<>>]

\* a content directory as earlier store requests left it
UploadsStored == uploads \in {[h \in Hashes |-> IF h \in present THEN <<h.sha256>> ELSE <<>>] :
                                 present \in SUBSET Hashes}

(* ------------------------------- ledger actions ------------------------- *)
\* Blockchain.add_transaction called by itself
AppendTransaction(payload) ==
    /\ pc = "idle"
    /\ Len(chain) < MaxChain
    /\ \E t1 \in ClockReads(now) : \E t2 \in ClockReads(t1), outcome \in SaveOutcomes :
        LET r == add_transaction(chain, current_transactions, payload, t1, t2)
        IN  /\ chain' = r.chain
            /\ current_transactions' = r.current_transactions
            /\ storage_file' = save_chain(r.chain, storage_file, outcome)
            /\ now' = t2
            /\ last' = [op |-> "add_transaction", arg |-> payload, ret |-> r.ret,
                        outcome |-> outcome]
    /\ UNCHANGED <<net, th, uploads, peers, peer_file, pc, st, bc, sy>>

\* the previous_hash values a caller can hand to create_block
PreviousHashes == {"1", "0"}

\* Blockchain.create_block called by itself
SealBlock(previous_hash) ==
    /\ pc = "idle"
    /\ Len(chain) < MaxChain
    /\ \E t \in ClockReads(now), outcome \in SaveOutcomes :
        LET r == create_block(chain, current_transactions, previous_hash, t)
        IN  /\ chain' = r.chain
            /\ current_transactions' = r.current_transactions
            /\ storage_file' = save_chain(r.chain, storage_file, outcome)
            /\ now' = t
            /\ last' = [op |-> "create_block", arg |-> previous_hash, ret |-> r.block,
                        outcome |-> outcome]
    /\ UNCHANGED <<net, th, uploads, peers, peer_file, pc, st, bc, sy>>

\* the process is started again: Blockchain.__init__ runs on the file the last
\* run left behind
Restart ==
    /\ pc = "idle"
    /\ \E t \in ClockReads(now), outcome1 \in SaveOutcomes, outcome2 \in SaveOutcomes :
        LET loaded == load_chain(storage_file)
            l      == init_ledger(storage_file, t, outcome1, outcome2)
            failed == last.op = "add_transaction" /\ last.outcome # "ok"
        IN  /\ Len(loaded) > 0 => t = now /\ outcome1 = "ok" /\ outcome2 = "ok"
            /\ chain' = l.chain
            /\ current_transactions' = l.current_transactions
            /\ storage_file' = l.storage_file
            /\ now' = t
            /\ last' = [op |-> "restart",
                        after_failed_append |-> failed,
                        lost |-> IF failed THEN <<chain[Len(chain)]>> ELSE <<>>,
                        outcome |-> IF Len(loaded) = 0 THEN outcome2 ELSE "none"]
    /\ UNCHANGED <<net, th, uploads, peers, peer_file, pc, st, bc, sy>>

(* --------------------- add_transaction called by two threads ------------ *)
\* a call of the thread u is under way
Running(u) == th[u].pc \notin {"ready", "done"}

\* add_transaction: self.current_transactions.append({...}). The append changes
\* the list object in place, so a block that another thread has built from that
\* object and that is still bound to it grows as well; overlapped notes that
\* the call started while a call of another thread was under way
RaceAppendTx(t) ==
    /\ th[t].pc = "ready"
    /\ \E payload \in Payloads, t1 \in ClockReads(now) :
        LET tx == [data |-> payload, timestamp |-> t1]
        IN  /\ current_transactions' = Append(current_transactions, tx)
            /\ th' = [u \in Threads |->
                        IF u = t
                        THEN [th[u] EXCEPT !.pc = "read_tip",
                                           !.overlapped = \E v \in Threads \ {t} : Running(v)]
                        ELSE IF th[u].aliased
                        THEN [th[u] EXCEPT !.block =
                                  << [@[1] EXCEPT !.transactions = Append(@, tx)] >>]
                        ELSE th[u]]
            /\ now' = t1
            /\ last' = [op |-> "append_tx", thread |-> t, arg |-> payload]
    /\ UNCHANGED <<net, chain, storage_file, uploads, peers, peer_file, pc, st, bc, sy>>

\* add_transaction: if len(self.current_transactions) >= 1, then
\* last_block = self.get_last_block() and self.hash(last_block)
RaceReadTip(t) ==
    /\ th[t].pc = "read_tip"
    /\ th' = [th EXCEPT ![t] =
                IF Len(current_transactions) >= 1
                THEN [@ EXCEPT !.pc = "build",
                               !.previous_hash = <<hash(chain[Len(chain)])>>]
                ELSE [@ EXCEPT !.pc = "return"]]
    /\ last' = [op |-> "read_tip", thread |-> t]
    /\ UNCHANGED <<net, chain, current_transactions, storage_file, now, uploads, peers,
                   peer_file, pc, st, bc, sy>>

\* create_block: the block dict is built; its transactions are the list object
\* self.current_transactions is bound to
RaceBuild(t) ==
    /\ th[t].pc = "build"
    /\ \E t2 \in ClockReads(now) :
        /\ th' = [th EXCEPT ![t] =
                    [@ EXCEPT !.pc = "clear",
                              !.block = << [index |-> Len(chain) + 1,
                                            timestamp |-> t2,
                                            transactions |-> current_transactions,
                                            previous_hash |-> th[t].previous_hash[1]] >>,
                              !.aliased = TRUE]]
        /\ now' = t2
    /\ last' = [op |-> "build", thread |-> t]
    /\ UNCHANGED <<net, chain, current_transactions, storage_file, uploads, peers,
                   peer_file, pc, st, bc, sy>>

\* create_block with the line self.current_transactions = [] left out
RaceClearKeepsPending(t) ==
    /\ th[t].pc = "clear"
    /\ th' = [u \in Threads |->
                IF u = t THEN [th[u] EXCEPT !.pc = "append", !.aliased = FALSE]
                ELSE th[u]]
    /\ last' = [op |-> "clear", thread |-> t]
    /\ UNCHANGED <<net, chain, current_transactions, storage_file, now, uploads, peers,
                   peer_file, pc, st, bc, sy>>

\* create_block: self.current_transactions = []. The name is bound to a new
\* list, so no block is bound to the pending list any more
RaceClear(t) ==
    /\ th[t].pc = "clear"
    /\ current_transactions' = <<>>
    /\ th' = [u \in Threads |->
                IF u = t THEN [th[u] EXCEPT !.pc = "append", !.aliased = FALSE]
                ELSE [th[u] EXCEPT !.aliased = FALSE]]
    /\ last' = [op |-> "clear", thread |-> t]
    /\ UNCHANGED <<net, chain, storage_file, now, uploads, peers, peer_file, pc, st, bc, sy>>

\* create_block: self.chain.append(block)
RaceAppendBlock(t) ==
    /\ th[t].pc = "append"
    /\ chain' = Append(chain, th[t].block[1])
    /\ th' = [th EXCEPT ![t].pc = "save"]
    /\ last' = [op |-> "append_block", thread |-> t]
    /\ UNCHANGED <<net, current_transactions, storage_file, now, uploads, peers,
                   peer_file, pc, st, bc, sy>>

\* create_block: self._save_chain()
RaceSave(t) ==
    /\ th[t].pc = "save"
    /\ \E outcome \in SaveOutcomes :
        /\ storage_file' = save_chain(chain, storage_file, outcome)
        /\ last' = [op |-> "save", thread |-> t, outcome |-> outcome]
    /\ th' = [th EXCEPT ![t].pc = "return"]
    /\ UNCHANGED <<net, chain, current_transactions, now, uploads, peers,
                   peer_file, pc, st, bc, sy>>

\* add_transaction: return self.get_last_block()['index']
RaceReturn(t) ==
    /\ th[t].pc = "return"
    /\ th' = [th EXCEPT ![t] = [@ EXCEPT !.pc = "done",
                                         !.ret = <<get_last_block(chain)[1].index>>]]
    /\ last' = [op |-> "return", thread |-> t]
    /\ UNCHANGED <<net, chain, current_transactions, storage_file, now, uploads, peers,
                   peer_file, pc, st, bc, sy>>

(* ------------------------- several nodes, POST /upload ------------------ *)
\* the sender of the requests of ns[p] that came from m has stopped waiting
abandon(ns, p, m) ==
    [ns EXCEPT ![p].inbox = [k \in 1..Len(@) |->
                                IF @[k].from = m THEN [@[k] EXCEPT !.live = FALSE]
                                ELSE @[k]],
               ![p].req = IF @ # <<>> /\ @[1].from = m
                          THEN << [@[1] EXCEPT !.live = FALSE] >> ELSE @]

\* broadcast_file of node n gets the outcome resp of its upload to peer
attempt_ends(ns, n, peer, resp) ==
    [ns EXCEPT ![n].bc = [broadcast_attempt(@, peer, resp) EXCEPT
                             !.trace = <<>>, !.who = <<>>],
               ![n].target = <<>>]

\* upload_file of node n starts on the next request of its inbox; a request
\* whose sender has gone may be dropped by the server before the handler runs
NetAccept(n) ==
    /\ net.nodes[n].mode = "idle"
    /\ net.nodes[n].inbox # <<>>
    /\ LET r == Head(net.nodes[n].inbox)
       IN  \E serve \in IF r.live THEN {TRUE} ELSE BOOLEAN :
            /\ net' = [net EXCEPT !.nodes[n] =
                          [@ EXCEPT !.inbox = Tail(@),
                                    !.mode = IF serve THEN "store" ELSE "idle",
                                    !.req = IF serve THEN <<r>> ELSE <<>>]]
            /\ last' = [op |-> "accept", node |-> n, serve |-> serve]
    /\ UNCHANGED <<chain, current_transactions, storage_file, now, uploads, peers,
                   peer_file, pc, st, bc, sy, th>>

\* store_file of node n: the write of the file and add_transaction, then the
\* start of broadcast_file over the node's own peers
NetStore(n) ==
    /\ net.nodes[n].mode = "store"
    /\ net' = [net EXCEPT !.nodes[n] =
                  [@ EXCEPT !.mode = "broadcast",
                            !.stored = TRUE,
                            !.bc = [broadcast_start(net.peers[n]) EXCEPT !.called = {}]]]
    /\ last' = [op |-> "add_transaction", node |-> n]
    /\ UNCHANGED <<chain, current_transactions, storage_file, now, uploads, peers,
                   peer_file, pc, st, bc, sy, th>>

\* broadcast_file of node n: requests.post to the next peer. The connection
\* fails, or the request reaches the peer and the call waits for the answer
NetPost(n) ==
    /\ net.nodes[n].mode = "broadcast"
    /\ net.nodes[n].target = <<>>
    /\ \E peer \in Nodes, delivered \in BOOLEAN :
        /\ IF net.nodes[n].bc.cur = <<>> THEN peer \in net.nodes[n].bc.todo
                                         ELSE peer = net.nodes[n].bc.cur[1]
        /\ delivered => Len(net.nodes[peer].inbox) < MaxInbox
        /\ net' = [net EXCEPT !.nodes =
                      IF delivered
                      THEN [@ EXCEPT ![peer].inbox = Append(@, [from |-> n, live |-> TRUE]),
                                     ![n].target = <<peer>>,
                                     ![n].bc = [@ EXCEPT !.todo = @ \ {peer},
                                                         !.cur = <<peer>>,
                                                         !.attempt = IF net.nodes[n].bc.cur = <<>>
                                                                     THEN 0 ELSE @]]
                      ELSE attempt_ends(@, n, peer, [exc |-> TRUE, status_code |-> 0])]
        /\ last' = [op |-> "upload", node |-> n, peer |-> peer, delivered |-> delivered]
    /\ UNCHANGED <<chain, current_transactions, storage_file, now, uploads, peers,
                   peer_file, pc, st, bc, sy, th>>

\* broadcast_file of node n: timeout=30 ends the wait for the peer's answer
NetTimeout(n) ==
    /\ net.nodes[n].mode = "broadcast"
    /\ net.nodes[n].target # <<>>
    /\ LET peer == net.nodes[n].target[1]
       IN  /\ net' = [net EXCEPT !.nodes =
                         attempt_ends(abandon(@, peer, n), n, peer,
                                      [exc |-> TRUE, status_code |-> 0])]
           /\ last' = [op |-> "timeout", node |-> n, peer |-> peer]
    /\ UNCHANGED <<chain, current_transactions, storage_file, now, uploads, peers,
                   peer_file, pc, st, bc, sy, th>>

\* store_file of node n returns after broadcast_file: the answer 200 goes to
\* the sender of the request if it still waits
NetReply(n) ==
    /\ net.nodes[n].mode = "broadcast"
    /\ net.nodes[n].target = <<>>
    /\ net.nodes[n].bc.cur = <<>> /\ net.nodes[n].bc.todo = {}
    /\ LET r  == net.nodes[n].req[1]
           me == [net.nodes EXCEPT ![n] = [NodeIdle EXCEPT !.inbox = net.nodes[n].inbox,
                                                          !.stored = TRUE]]
       IN  /\ net' = [net EXCEPT !.nodes =
                         IF r.live /\ r.from \in Nodes
                         THEN attempt_ends(me, r.from, n, [exc |-> FALSE, status_code |-> 200])
                         ELSE me]
           /\ last' = [op |-> "store_file", node |-> n, answered |-> r.live]
    /\ UNCHANGED <<chain, current_transactions, storage_file, now, uploads, peers,
                   peer_file, pc, st, bc, sy, th>>

(* ------------------------------- registry actions ----------------------- *)
\* Network.add_peer
AddPeer(peer_url) ==
    /\ pc = "idle"
    /\ \E probe \in Probes, outcome \in SaveOutcomes, written \in SUBSET (peers \cup {normalize(peer_url)}) :
        LET r == add_peer(peers, peer_file, peer_url, probe, outcome, written)
        IN  /\ peers' = r.peers
            /\ peer_file' = r.peer_file
            /\ last' = [op |-> "add_peer", arg |-> peer_url, probe |-> probe,
                        outcome |-> IF r.saved THEN outcome ELSE "none", ret |-> r.ret]
    /\ UNCHANGED <<net, th, chain, current_transactions, storage_file, now, uploads, pc, st, bc, sy>>

\* Network.remove_peer
RemovePeer(peer_url) ==
    /\ pc = "idle"
    /\ \E outcome \in SaveOutcomes, written \in SUBSET (peers \ {peer_url}) :
        LET r == remove_peer(peers, peer_file, peer_url, outcome, written)
        IN  /\ peers' = r.peers
            /\ peer_file' = r.peer_file
            /\ last' = [op |-> "remove_peer", arg |-> peer_url,
                        outcome |-> IF r.saved THEN outcome ELSE "none"]
    /\ UNCHANGED <<net, th, chain, current_transactions, storage_file, now, uploads, pc, st, bc, sy>>

(* ------------------------------- store_file ---------------------------- *)
\* store_file starting the uploads right after the write, before the ledger
\* has the record
StoreFileBroadcastsFirst(file) ==
    /\ pc = "idle"
    /\ Len(chain) < MaxChain
    /\ IF Len(file.content) > max_file_size
       THEN /\ last' = [op |-> "store_file", arg |-> file, raised |-> TRUE,
                        status_code |-> 500, cause |-> 413]
            /\ UNCHANGED <<uploads, pc, st, bc>>
       ELSE LET file_hash == sha256_hexdigest(file.content)
            IN  /\ uploads' = [uploads EXCEPT ![file_hash] = <<file.content>>]
                /\ st' = [file_hash |-> <<file_hash>>, file |-> file]
                /\ bc' = broadcast_start(peers)
                /\ pc' = "broadcast"
                /\ last' = [op |-> "store_write", arg |-> file]
    /\ UNCHANGED <<net, th, chain, current_transactions, storage_file, now, peers, peer_file, sy>>

\* P2PNode.store_file up to the write into the content directory; the 413 raised
\* for a file over the cap is caught by the handler's own except and raised as 500
StoreFile(file) ==
    /\ pc = "idle"
    /\ Len(chain) < MaxChain
    /\ IF Len(file.content) > max_file_size
       THEN /\ last' = [op |-> "store_file", arg |-> file, raised |-> TRUE,
                        status_code |-> 500, cause |-> 413]
            /\ UNCHANGED <<uploads, pc, st>>
       ELSE LET file_hash == sha256_hexdigest(file.content)
            IN  /\ uploads' = [uploads EXCEPT ![file_hash] = <<file.content>>]
                /\ st' = [file_hash |-> <<file_hash>>, file |-> file]
                /\ pc' = "store_ledger"
                /\ last' = [op |-> "store_write", arg |-> file]
    /\ UNCHANGED <<net, th, chain, current_transactions, storage_file, now, peers, peer_file, bc, sy>>

\* P2PNode.store_file: the call of blockchain.add_transaction, then the start of
\* network.broadcast_file
StoreLedger ==
    /\ pc = "store_ledger"
    /\ \E t1 \in ClockReads(now) : \E t2 \in ClockReads(t1), outcome \in SaveOutcomes :
        LET r == add_transaction(chain, current_transactions, store_payload(st.file), t1, t2)
        IN  /\ chain' = r.chain
            /\ current_transactions' = r.current_transactions
            /\ storage_file' = save_chain(r.chain, storage_file, outcome)
            /\ now' = t2
            /\ last' = [op |-> "add_transaction", arg |-> store_payload(st.file),
                        ret |-> r.ret, outcome |-> outcome]
    /\ bc' = broadcast_start(peers)
    /\ pc' = "broadcast"
    /\ UNCHANGED <<net, th, uploads, peers, peer_file, st, sy>>

\* Network.broadcast_file: one upload attempt; got200 notes the peers that
\* answered 200
BroadcastAttempt(peer) ==
    /\ pc = "broadcast"
    /\ IF bc.cur = <<>> THEN peer \in bc.todo ELSE peer = bc.cur[1]
    /\ \E resp \in UploadResponses :
        /\ bc' = [broadcast_attempt(bc, peer, resp) EXCEPT
                     !.got200 = IF ~resp.exc /\ resp.status_code = 200
                                THEN @ \cup {peer} ELSE @]
        /\ last' = [op |-> "upload", peer |-> peer, resp |-> resp]
    /\ UNCHANGED <<net, th, chain, current_transactions, storage_file, now, uploads, peers,
                   peer_file, pc, st, sy>>

\* Network.broadcast_file: return results
BroadcastReturn ==
    /\ pc = "broadcast"
    /\ bc.cur = <<>> /\ bc.todo = {}
    /\ last' = [op |-> "broadcast_file", raised |-> FALSE, called |-> bc.called,
                ret |-> [success |-> bc.success, failed |-> bc.failed]]
    /\ bc' = BcIdle
    /\ pc' = "store_return"
    /\ UNCHANGED <<net, th, chain, current_transactions, storage_file, now, uploads, peers,
                   peer_file, st, sy>>

\* P2PNode.store_file: return {"hash": file_hash}
StoreReturn ==
    /\ pc = "store_return"
    /\ last' = [op |-> "store_file", arg |-> st.file, raised |-> FALSE,
                ret |-> [hash |-> st.file_hash[1]]]
    /\ st' = StIdle
    /\ pc' = "idle"
    /\ UNCHANGED <<net, th, chain, current_transactions, storage_file, now, uploads, peers,
                   peer_file, bc, sy>>

(* ------------------------------- sync_files ----------------------------- *)
\* Network.sync_files is called
SyncFiles ==
    /\ pc = "idle"
    /\ sy' = sync_start(peers)
    /\ pc' = "sync"
    /\ last' = [op |-> "sync_start"]
    /\ UNCHANGED <<net, th, chain, current_transactions, storage_file, now, uploads, peers,
                   peer_file, st, bc>>

\* Network.sync_files: the status request to the next peer; when reading the
\* answer raises, sync_files is left without a result
SyncStatus(peer) ==
    /\ pc = "sync"
    /\ sy.cur = <<>> /\ peer \in sy.todo
    /\ \E resp \in StatusResponses :
       \E old_requests \in IF BadJson(resp) THEN BOOLEAN ELSE {FALSE} :
       LET r == sync_status(sy, uploads, peer, resp, old_requests)
       IN  IF r.raised
           THEN /\ last' = [op |-> "sync_files", raised |-> TRUE, raised_by |-> {peer},
                            cause |-> IF resp.json_ok THEN "AttributeError: last_block is None"
                                      ELSE "ValueError: body is not JSON",
                            called |-> sy.called, attempted |-> r.sy.attempted,
                            results |-> SyIdle.results]
                /\ sy' = SyIdle
                /\ pc' = "idle"
           ELSE /\ last' = [op |-> "status", peer |-> peer]
                /\ sy' = r.sy
                /\ pc' = pc
    /\ UNCHANGED <<net, th, chain, current_transactions, storage_file, now, uploads, peers,
                   peer_file, st, bc>>

\* Network.sync_files: the next transaction of the peer's last block
SyncPull ==
    /\ pc = "sync"
    /\ sy.cur # <<>> /\ sy.i <= Len(sy.tip)
    /\ \E resp \in RetrieveResponses :
       LET r == sync_pull(sy, uploads, resp)
       IN  /\ sy' = r.sy
           /\ uploads' = r.uploads
           /\ last' = [op |-> "sync_pull", peer |-> sy.cur[1], tx |-> sy.tip[sy.i],
                       resp |-> resp,
                       requested |-> Len(r.sy.reqs) > Len(sy.reqs),
                       ret |-> Len(r.sy.counted) > Len(sy.counted)]
    /\ UNCHANGED <<net, th, chain, current_transactions, storage_file, now, peers, peer_file,
                   pc, st, bc>>

\* Network.sync_files: the peer's transactions are done
SyncPeerDone ==
    /\ pc = "sync"
    /\ sy.cur # <<>> /\ sy.i > Len(sy.tip)
    /\ sy' = sync_peer_done(sy)
    /\ last' = [op |-> "sync_peer_done", peer |-> sy.cur[1]]
    /\ UNCHANGED <<net, th, chain, current_transactions, storage_file, now, uploads, peers,
                   peer_file, pc, st, bc>>

\* Network.sync_files: return results
SyncReturn ==
    /\ pc = "sync"
    /\ sy.cur = <<>> /\ sy.todo = {}
    /\ last' = [op |-> "sync_files", raised |-> FALSE, raised_by |-> {},
                called |-> sy.called, attempted |-> sy.attempted, results |-> sy.results]
    /\ sy' = SyIdle
    /\ pc' = "idle"
    /\ UNCHANGED <<net, th, chain, current_transactions, storage_file, now, uploads, peers,
                   peer_file, st, bc>>

\* the step recorded in l was a _download_file of file_hash that got a whole body
\* with another digest
Discarded(l, file_hash) ==
    /\ l.op = "_download_file"
    /\ l.file_hash = file_hash
    /\ l.requested
    /\ ~l.resp.exc /\ l.resp.status_code = 200
    /\ l.resp.delivered = Len(l.resp.body)
    /\ sha256_hexdigest(l.resp.body) # file_hash

\* Network._download_file called by itself
PullFile(peer, file_hash) ==
    /\ pc = "idle"
    /\ peer \in peers
    /\ \E resp \in RetrieveResponses :
       LET d == download_file(uploads, file_hash, resp)
       IN  /\ uploads' = d.uploads
           /\ last' = [op |-> "_download_file", peer |-> peer, file_hash |-> file_hash,
                       resp |-> resp, requested |-> d.requested, ret |-> d.ret,
                       again |-> Discarded(last, file_hash)]
    /\ UNCHANGED <<net, th, chain, current_transactions, storage_file, now, peers, peer_file,
                   pc, st, bc, sy>>

(* ------------------------------- specifications ------------------------- *)
LedgerNext ==
    \/ \E payload \in Payloads : AppendTransaction(payload)
    \/ \E previous_hash \in PreviousHashes : SealBlock(previous_hash)

\* the ledger with the process started again between calls
RestartNext ==
    \/ \E payload \in Payloads : AppendTransaction(payload)
    \/ \E previous_hash \in PreviousHashes : SealBlock(previous_hash)
    \/ Restart

\* the ledger changed by add_transaction only
AppendNext == \E payload \in Payloads : AppendTransaction(payload)

\* one add_transaction call in each of two threads, taken line by line
RaceNext ==
    \/ \E t \in Threads : RaceAppendTx(t)
    \/ \E t \in Threads : RaceReadTip(t)
    \/ \E t \in Threads : RaceBuild(t)
    \/ \E t \in Threads : RaceClear(t)
    \/ \E t \in Threads : RaceAppendBlock(t)
    \/ \E t \in Threads : RaceSave(t)
    \/ \E t \in Threads : RaceReturn(t)

\* the steps of one node of the network
NetStep(n) ==
    \/ NetAccept(n)
    \/ NetStore(n)
    \/ NetPost(n)
    \/ NetTimeout(n)
    \/ NetReply(n)

NetNext == \E n \in Nodes : NetStep(n)

PeersNext ==
    \/ \E peer_url \in Urls : AddPeer(peer_url)
    \/ \E peer_url \in Urls : RemovePeer(peer_url)

PushNext ==
    \/ \E file \in UploadFiles : StoreFile(file)
    \/ StoreLedger
    \/ \E peer \in PeerUrls : BroadcastAttempt(peer)
    \/ BroadcastReturn
    \/ StoreReturn

PullNext ==
    \/ SyncFiles
    \/ \E peer \in PeerUrls : SyncStatus(peer)
    \/ SyncPull
    \/ SyncPeerDone
    \/ SyncReturn
    \/ \E peer \in PeerUrls, file_hash \in Hashes : PullFile(peer, file_hash)

Next == LedgerNext \/ PeersNext \/ PushNext \/ PullNext

\* the ledger by itself
InitLedger == LedgerInit /\ PeersInit /\ UploadsEmpty /\ HandlersIdle
SpecLedger == InitLedger /\ [][LedgerNext]_vars

\* the ledger across restarts
InitRestart == LedgerInit /\ PeersInit /\ UploadsEmpty /\ HandlersIdle
SpecRestart == InitRestart /\ [][RestartNext]_vars

\* the ledger under add_transaction calls only
InitAppend == LedgerInit /\ PeersInit /\ UploadsEmpty /\ HandlersIdle
SpecAppend == InitAppend /\ [][AppendNext]_vars

\* two threads calling add_transaction on one Blockchain object
InitRace == LedgerInitPlain /\ PeersInit /\ UploadsEmpty /\ HandlersIdle
SpecRace == InitRace /\ [][RaceNext]_vars

\* a network of nodes with any peer sets, one of them holding the upload
\* request of a client
NetInit ==
    /\ pc = "idle" /\ st = StIdle /\ bc = BcIdle /\ sy = SyIdle /\ th = ThIdle
    /\ last = [op |-> "init"]
    /\ \E ps \in [Nodes -> SUBSET Nodes], first \in Nodes :
        /\ \A n \in Nodes : n \notin ps[n]
        /\ net = [peers |-> ps,
                  nodes |-> [n \in Nodes |->
                               IF n = first
                               THEN [NodeIdle EXCEPT !.inbox =
                                        << [from |-> "client", live |-> TRUE] >>]
                               ELSE NodeIdle]]

\* the nodes of a network passing one upload on; every node keeps running and
\* every wait for an answer ends
InitNet == LedgerInitPlain /\ PeersInit /\ UploadsEmpty /\ NetInit
SpecNet == InitNet /\ [][NetNext]_vars /\ \A n \in Nodes : WF_vars(NetStep(n))

\* the peer registry by itself
InitPeers == LedgerInitPlain /\ PeersInit /\ UploadsEmpty /\ HandlersIdle
SpecPeers == InitPeers /\ [][PeersNext]_vars

\* store requests, with the uploads to the registered peers
InitPush == LedgerInitPlain /\ PeersLoaded /\ UploadsEmpty /\ HandlersIdle
SpecPush == InitPush /\ [][PushNext]_vars

\* sync_files and _download_file
InitPull == LedgerInitPlain /\ PeersLoaded /\ UploadsStored /\ HandlersIdle
SpecPull == InitPull /\ [][PullNext]_vars

\* the whole node: SpecLedger, SpecPeers, SpecPush and SpecPull are this one with the handlers
\* of one group only
Init == LedgerInit /\ PeersInit /\ UploadsEmpty /\ HandlersIdle
Spec == Init /\ [][Next]_vars

(* ------------------------------- properties ----------------------------- *)
\* the last block of a chain
Tip(ch) == ch[Len(ch)]

\* C1: every call of add_transaction makes the chain one block longer, the new
\* last block holds exactly one transaction whose data is the payload, the
\* pending transactions are empty afterwards, and the call returns the index of
\* the new block
C1_AppendAddsOneBlock ==
    [][last'.op = "add_transaction" =>
         /\ Len(chain') = Len(chain) + 1
         /\ SubSeq(chain', 1, Len(chain)) = chain
         /\ Len(Tip(chain').transactions) = 1
         /\ Tip(chain').transactions[1].data = last'.arg
         /\ current_transactions' = <<>>
         /\ last'.ret = <<Tip(chain').index>>]_vars

\* an add_transaction has returned on a chain that an earlier call had extended
C1_Witness == last.op = "add_transaction" /\ Len(chain) >= 3

\* the elements of a sequence
Range(seq) == {seq[k] : k \in 1..Len(seq)}

\* C2: every file in the content directory holds bytes whose digest is its name,
\* and no step changes or removes a file that was there before the step
C2_StoredBytesMatchName ==
    [][/\ \A h \in Hashes : exists(uploads', h) => sha256_hexdigest(uploads'[h][1]) = h
       /\ \A h \in Hashes : exists(uploads, h) => uploads'[h] = uploads[h]]_vars

\* C3: when sync_files or broadcast_file is over, whatever one peer answered,
\* every other peer that was registered at the call has been attempted and has
\* its entry in the result
C3_EveryPeerGetsItsTurn ==
    /\ last.op = "sync_files" =>
          \A peer \in last.called \ last.raised_by :
              /\ peer \in last.attempted
              /\ peer \in DOMAIN last.results.peers
    /\ last.op = "broadcast_file" =>
          /\ ~last.raised
          /\ Range(last.ret.success) \cup Range(last.ret.failed) = last.called

\* C4: the attempts to the peer under way stop at the first 200 and never exceed
\* retry_limit; a peer that is done either got a 200 at its last attempt and is
\* in success only, or got none in exactly retry_limit attempts and is in failed
\* only
C4_RetriesBoundedAndStopAtSuccess ==
    (pc = "broadcast" /\ bc.who # <<>>) =>
        LET peer == bc.who[1]
            tr   == bc.trace
        IN  /\ Attempts(tr) <= retry_limit
            /\ \A k \in 1..(Len(tr) - 1) : tr[k] # "ok"
            /\ bc.cur # <<>> => /\ "ok" \notin Range(tr)
                                /\ Attempts(tr) < retry_limit
            /\ bc.cur = <<>> =>
                  \/ /\ tr[Len(tr)] = "ok"
                     /\ peer \in Range(bc.success) /\ peer \notin Range(bc.failed)
                  \/ /\ "ok" \notin Range(tr)
                     /\ Attempts(tr) = retry_limit
                     /\ peer \in Range(bc.failed) /\ peer \notin Range(bc.success)

\* a peer whose three attempts all failed in transport is in failed
C4_Witness ==
    /\ pc = "broadcast" /\ bc.cur = <<>>
    /\ bc.trace = <<"exc", "sleep", "exc", "sleep", "exc", "sleep">>
    /\ bc.who[1] \in Range(bc.failed)

\* C5: broadcast_file returns, without raising, every peer registered at the call
\* exactly once: in success when one of its attempts got a 200, in failed otherwise
C5_BroadcastPartitionsPeers ==
    [][last'.op = "broadcast_file" =>
         LET r == last'.ret
         IN  /\ ~last'.raised
             /\ Range(r.success) \cup Range(r.failed) = bc.called
             /\ Len(r.success) + Len(r.failed) = Cardinality(bc.called)
             /\ Range(r.success) \cap Range(r.failed) = {}
             /\ Range(r.success) = bc.got200]_vars

\* broadcast_file has returned with both peers in failed
C5_Witness ==
    /\ last.op = "broadcast_file"
    /\ last.ret.success = <<>>
    /\ Len(last.ret.failed) = 2

\* a whole body arrived and its digest is not file_hash
Mismatch(resp, file_hash) ==
    /\ ~resp.exc /\ resp.status_code = 200
    /\ resp.delivered = Len(resp.body)
    /\ sha256_hexdigest(resp.body) # file_hash

\* C6: a _download_file of a hash that is not stored sends a request; when a whole
\* body with another digest comes back, the hash is still not stored afterwards
\* and the call returns False, so that the next call for that hash asks again
C6_MismatchIsDiscarded ==
    [][(last'.op = "_download_file" /\ ~exists(uploads, last'.file_hash)) =>
         /\ last'.requested
         /\ Mismatch(last'.resp, last'.file_hash) =>
               /\ ~exists(uploads', last'.file_hash)
               /\ ~last'.ret]_vars

\* a second _download_file of a hash right after a discarded one asked the peer again
C6_Witness ==
    /\ last.op = "_download_file"
    /\ last.again
    /\ last.requested
    /\ Mismatch(last.resp, last.file_hash)
    /\ ~exists(uploads, last.file_hash)

\* C7: a _download_file of a hash that is stored returns True, sends no request
\* and leaves the content directory as it was
C7_PresentHashIsSkipped ==
    [][(last'.op = "_download_file" /\ exists(uploads, last'.file_hash)) =>
         /\ last'.ret
         /\ ~last'.requested
         /\ uploads' = uploads]_vars

\* a _download_file of a stored hash has returned True without a request
C7_Witness ==
    /\ last.op = "_download_file"
    /\ last.ret /\ ~last.requested
    /\ exists(uploads, last.file_hash)

\* C8: no hash that the peer's ledger names only in blocks before its last is
\* requested from the peer or counted for it
C8_OnlyTipIsRead ==
    (pc = "sync" /\ sy.cur # <<>>) =>
        /\ Range(sy.reqs) \cap sy.only_older = {}
        /\ Range(sy.counted) \cap sy.only_older = {}

\* the last block of a peer with an older hash has been worked through with a request
C8_Witness ==
    /\ pc = "sync" /\ sy.cur # <<>>
    /\ sy.only_older # {}
    /\ sy.i > Len(sy.tip)
    /\ sy.reqs # <<>>

\* C9: the file count of a peer is the number of files that were not stored when
\* its turn began and are stored when it ends
C9_CountIsNewlyStored ==
    (pc = "sync" /\ sy.cur # <<>> /\ sy.i > Len(sy.tip)) =>
        sy.peer_result.files = Cardinality({h \in sy.absent_before : exists(uploads, h)})

\* the url add_peer is to register for peer_url
Registered(peer_url) ==
    IF peer_url \in {"http://a:1", "https://b:2"} THEN peer_url ELSE "http://" \o peer_url

\* C10 as stated: after a 200 probe the prefixed url is registered and persisted
\* and add_peer returns True; after any other probe it returns False and the
\* registry and the peer file are as before
C10_AsStated ==
    [][last'.op = "add_peer" =>
         IF ~last'.probe.exc /\ last'.probe.status_code = 200
         THEN /\ Registered(last'.arg) \in peers'
              /\ peer_file'.exists /\ Registered(last'.arg) \in peer_file'.lines
              /\ last'.ret
         ELSE /\ ~last'.ret
              /\ peers' = peers
              /\ peer_file' = peer_file]_vars

\* C10 amended: as stated, the url being in the peer file when the write of the
\* peer file succeeded
C10_AddPeerAdmitsOnProbe ==
    [][last'.op = "add_peer" =>
         IF ~last'.probe.exc /\ last'.probe.status_code = 200
         THEN /\ Registered(last'.arg) \in peers'
              /\ last'.outcome = "ok" =>
                    (peer_file'.exists /\ Registered(last'.arg) \in peer_file'.lines)
              /\ last'.ret
         ELSE /\ ~last'.ret
              /\ peers' = peers
              /\ peer_file' = peer_file]_vars

\* add_peer("a:1") has returned True with http://a:1 registered and persisted
C10_Witness ==
    /\ last.op = "add_peer" /\ last.arg = "a:1" /\ last.ret
    /\ "http://a:1" \in peers
    /\ "http://a:1" \in peer_file.lines

\* C11: in every state of a ledger started from a missing or unparseable file
\* and changed by add_transaction and create_block calls one after another,
\* the chain is not empty, the block at position i carries index i (positions
\* counted from 1), and the first block has previous_hash "1" and no transactions.
C11_IndexIsPosition ==
    /\ Len(chain) >= 1
    /\ \A i \in 1..Len(chain) : chain[i].index = i
    /\ chain[1].previous_hash = "1"
    /\ chain[1].transactions = <<>>

\* a chain at its bound whose last block came from create_block called by itself
C11_Witness ==
    /\ Len(chain) = MaxChain
    /\ last.op = "create_block"
    /\ \E i \in 2..Len(chain) : Len(chain[i].transactions) = 1

\* the steps that end with a write of the ledger file
Writes(l) ==
    \/ l.op \in {"add_transaction", "create_block"}
    \/ l.op = "restart" /\ l.outcome # "none"

\* C12: a failed write of the ledger file during add_transaction is not shown
\* to the caller: the call returns the index of the new block and the chain in
\* memory is one block longer; a restart right after the failed write loads a
\* chain without that block; and after every write that succeeded the file
\* holds the chain that is in memory.
C12_SaveFailureIsSwallowed ==
    [][/\ (last'.op = "add_transaction" /\ last'.outcome # "ok")
            => /\ Len(chain') = Len(chain) + 1
               /\ SubSeq(chain', 1, Len(chain)) = chain
               /\ last'.ret = <<chain'[Len(chain')].index>>
               /\ last'.ret = <<Len(chain) + 1>>
       /\ (last'.op = "restart" /\ last'.after_failed_append)
            => \A i \in 1..Len(chain') : chain'[i] # last'.lost[1]
       /\ (Writes(last') /\ last'.outcome = "ok")
            => storage_file' = [state |-> "ok", data |-> chain']
      ]_vars

\* a restart right after an add_transaction whose write failed, which found a
\* chain to load
C12_Witness ==
    /\ last.op = "restart"
    /\ last.after_failed_append
    /\ last.outcome = "none"
    /\ Len(chain) >= 2

\* C18: under add_transaction calls only, every block after the first has
\* previous_hash equal to the hash of the block before it as that block stands
\* in the chain, and no call changes or removes a block that is in the chain.
C18_ChainIsLinkedAndGrows ==
    [][/\ \A i \in 2..Len(chain') : chain'[i].previous_hash = hash(chain'[i - 1])
       /\ Len(chain') >= Len(chain)
       /\ SubSeq(chain', 1, Len(chain)) = chain
      ]_vars

\* three blocks, the last two appended by add_transaction
C18_Witness ==
    /\ Len(chain) = MaxChain
    /\ last.op = "add_transaction"
    /\ \A i \in 2..Len(chain) : Len(chain[i].transactions) = 1

\* C13: a store request whose content is larger than the cap is answered with
\* the too-large status 413, and nothing is stored, the ledger is unchanged
\* and no upload is started.
C13_OversizeIsRejectedAsTooLarge ==
    [][(last'.op = "store_file" /\ Len(last'.arg.content) > max_file_size)
         => /\ last'.raised
            /\ last'.status_code = 413
            /\ uploads' = uploads
            /\ chain' = chain /\ current_transactions' = current_transactions
            /\ storage_file' = storage_file
            /\ pc' = "idle" /\ bc' = BcIdle
      ]_vars

\* the transactions of a chain that carry the hash h
Records(ch, h) ==
    {<<i, j>> \in (1..Len(ch)) \X (1..MaxChain) :
        /\ j <= Len(ch[i].transactions)
        /\ ch[i].transactions[j].data.hash = h}

\* C14: a store request within the cap writes the bytes under their hash
\* first, then appends exactly one record with that hash to the ledger, then
\* starts the uploads: every upload attempt finds the file stored and the
\* record in the chain, and no other step of the request touches the chain.
C14_StoreThenLedgerThenPush ==
    [][/\ last'.op = "store_write"
            => /\ uploads'[sha256_hexdigest(last'.arg.content)] = <<last'.arg.content>>
               /\ chain' = chain
               /\ bc' = BcIdle
       /\ (pc = "store_ledger" /\ last'.op = "add_transaction")
            => /\ uploads[st.file_hash[1]] = <<st.file.content>>
               /\ bc = BcIdle
               /\ Len(chain') = Len(chain) + 1
               /\ SubSeq(chain', 1, Len(chain)) = chain
               /\ Cardinality(Records(chain', st.file_hash[1]))
                    = Cardinality(Records(chain, st.file_hash[1])) + 1
       /\ last'.op = "upload"
            => /\ uploads[st.file_hash[1]] = <<st.file.content>>
               /\ Records(chain, st.file_hash[1]) # {}
               /\ chain' = chain /\ uploads' = uploads
       /\ last'.op \in {"broadcast_file", "store_file"}
            => chain' = chain /\ uploads' = uploads
      ]_vars

\* an upload attempt was made for a stored and recorded file
C14_Witness ==
    /\ last.op = "upload"
    /\ pc = "broadcast"
    /\ Records(chain, st.file_hash[1]) # {}

\* both calls have returned
BothReturned == \A t \in Threads : th[t].pc = "done"

\* a block sealed by add_transaction that holds no payload or two
MisfilledBlock == \E i \in 2..Len(chain) : Len(chain[i].transactions) \in {0, 2}

\* two blocks of the chain carry the same index
SharedIndex ==
    \E i \in 1..Len(chain), j \in 1..Len(chain) : i # j /\ chain[i].index = chain[j].index

\* C15: add_transaction is not protected against a second caller. When both
\* calls have returned, a block with no payload or with two, or two blocks with
\* one index, are there only when the calls overlapped; C15_Witness is the
\* state the claim says is reachable.
C15_AnomaliesNeedOverlap ==
    (BothReturned /\ (MisfilledBlock \/ SharedIndex))
        => \E t \in Threads : th[t].overlapped

\* after two interleaved calls: one block with both payloads, one with none,
\* and both blocks with index 2
C15_Witness ==
    /\ BothReturned
    /\ \E t \in Threads : th[t].overlapped
    /\ \E i \in 2..Len(chain) : Len(chain[i].transactions) = 2
    /\ \E i \in 2..Len(chain) : Len(chain[i].transactions) = 0
    /\ SharedIndex

\* C16: a further upload attempt to a peer follows only an attempt that ended
\* in a transport failure, and the delay lies between any two attempts to the
\* same peer: in the trace of one peer every attempt that is not the last one
\* is "exc" and is directly followed by "sleep".
C16_RetryOnlyAfterTransportFailureWithDelay ==
    \A k \in 1..Len(bc.trace) :
        (bc.trace[k] # "sleep" /\ \E j \in (k + 1)..Len(bc.trace) : bc.trace[j] # "sleep")
            => /\ bc.trace[k] = "exc"
               /\ bc.trace[k + 1] = "sleep"

\* C17: within one sync_files call a pull that fails is counted as a failure
\* in the result and is not retried: a failed status request and every failed
\* retrieval add one to the failed tally, no peer is asked for its status
\* twice, and every transaction of the tip gets at most one retrieval request.
C17_FailedPullIsCountedNotRetried ==
    [][/\ last'.op = "status"
            => /\ last'.peer \notin sy.attempted
               /\ last'.peer \notin sy'.todo
               /\ sy'.cur = <<>> => sy'.results.failed = sy.results.failed + 1
       /\ last'.op = "sync_pull"
            => /\ sy'.i = sy.i + 1
               /\ Len(sy'.reqs) <= Len(sy.reqs) + 1
       /\ last'.op = "sync_peer_done"
            => sy'.results.failed = sy.results.failed + sy.pull_failed
      ]_vars

\* no node of the network works on a request or holds one unread
NetQuiet ==
    \A n \in Nodes : net.nodes[n].mode = "idle" /\ net.nodes[n].inbox = <<>>

\* C19: the propagation of one client store request ends: the network comes
\* to rest with no upload under way and none waiting, after finitely many
\* uploads and ledger appends.
C19_PropagationTerminates == <>[]NetQuiet

\* C20: remove_peer called with the very string that add_peer was just called
\* with, and admitted, leaves the registry and (when its write of the peer
\* file does not fail) the peer file without the peer that add_peer admitted;
\* remove_peer of a url that is not registered changes nothing.
C20_RemoveUndoesAdd ==
    [][/\ (last'.op = "remove_peer" /\ last.op = "add_peer" /\ last.ret
            /\ last'.arg = last.arg)
            => /\ Registered(last.arg) \notin peers'
               /\ \/ last'.outcome \in {"open_failed", "write_failed"}
                  \/ ~peer_file'.exists
                  \/ Registered(last.arg) \notin peer_file'.lines
       /\ (last'.op = "remove_peer" /\ last'.arg \notin peers)
            => peers' = peers /\ peer_file' = peer_file
      ]_vars

====
